---- MODULE Spec2Model ----
(***************************************************************************)
(* A model of the World registry of include/ecs/world.h: the live-entity   *)
(* set, the per-type component storages with their three event            *)
(* dispatchers, and the View built by World::view().                       *)
(*                                                                         *)
(* A call that runs user code (subscriber callbacks of a publish, the      *)
(* callable given to View::each, the body of a range-for over a View) is a *)
(* frame on `stack`: one action enters the call, one action runs each      *)
(* piece of user code, one action returns.  `ret` is what the caller sees  *)
(* of the call that returned last.                                         *)
(***************************************************************************)
EXTENDS Integers, Sequences, FiniteSets, TLC

\* ---------------------------------------------------------------- bounds
MaxEntities == 2      \* createEntity is called at most this often
MaxValue == 1         \* component values are 0..MaxValue
MaxCallbacks == 1     \* connect is called at most this often on a World
MaxSubscribers == 2   \* the same, where callbacks are told apart
MaxDepth == 3         \* calls nested through callbacks: the stack is at most this deep

\* nextEntityId and nextCallbackId are unsigned: ++ wraps at 2^32, which the
\* guards below (MaxEntities, MaxCallbacks, MaxSubscribers) keep out of reach

Types == {"int", "float"}
Phases == {"create", "update", "remove"}
Values == 0..MaxValue
EntityIds == 0..(MaxEntities - 1)

VARIABLES
    entities,          \* World::entities
    nextEntityId,      \* World::nextEntityId
    componentStorage,  \* World::componentStorage: type -> Storage
    stack,             \* the calls in progress, innermost last
    ret,               \* the call that returned last, as its caller saw it
    returnedIds,       \* every id createEntity has returned so far
    subscriptions      \* every (type, phase, id) connect has returned so far,
                       \* and those of them disconnect was called with since

vars == <<entities, nextEntityId, componentStorage, stack, ret, returnedIds,
          subscriptions>>

\* ------------------------------------------------------- std::map helpers
EmptyMap == [x \in {} |-> 0]

MapErase(m, k) == [x \in (DOMAIN m) \ {k} |-> m[x]]

MapInsertOrAssign(m, k, v) ==
    [x \in (DOMAIN m) \cup {k} |-> IF x = k THEN v ELSE m[x]]

\* ------------------------------------------------------- EventDispatcher
EmptyDispatcher == [nextCallbackId |-> 0, callbacks |-> EmptyMap]

\* connect that hands out the lowest id no connected callback holds
DispatcherConnectIdReused(d) ==
    CHOOSE id \in 0..Cardinality(DOMAIN d.callbacks) :
        /\ id \notin DOMAIN d.callbacks
        /\ \A lower \in 0..(id - 1) : lower \in DOMAIN d.callbacks

\* auto id = nextCallbackId++
DispatcherConnectId(d) == d.nextCallbackId

\* connect: id = nextCallbackId++; callbacks[id] = f
DispatcherConnect(d, f) ==
    [nextCallbackId |-> d.nextCallbackId + 1,
     callbacks |-> MapInsertOrAssign(d.callbacks, DispatcherConnectId(d), f)]

\* disconnect as callbacks.clear()
DispatcherDisconnectAll(d, callbackId) == [d EXCEPT !.callbacks = EmptyMap]

\* callbacks.erase(callbackId)
DispatcherDisconnect(d, callbackId) ==
    [d EXCEPT !.callbacks = MapErase(@, callbackId)]

\* -------------------------------------------------------------- Storage
EmptyStorage ==
    [map |-> EmptyMap, entities |-> {},
     createEventDispatcher |-> EmptyDispatcher,
     updateEventDispatcher |-> EmptyDispatcher,
     removeEventDispatcher |-> EmptyDispatcher]

\* erase that forgets entities.erase(entity)
StorageEraseMapOnly(st, e) == [st EXCEPT !.map = MapErase(@, e)]

\* std::map<Entity, Component>::erase(entity); entities.erase(entity)
StorageErase(st, e) ==
    [st EXCEPT !.map = MapErase(@, e), !.entities = @ \ {e}]

\* std::map::insert in place of insert_or_assign: a present key keeps its value
StorageInsertOnly(st, e, c) ==
    IF e \in DOMAIN st.map
    THEN st
    ELSE [st EXCEPT !.map = MapInsertOrAssign(@, e, c), !.entities = @ \cup {e}]

\* insert_or_assign that forgets entities.insert(entity)
StorageInsertOrAssignMapOnly(st, e, c) ==
    [st EXCEPT !.map = MapInsertOrAssign(@, e, c)]

StorageInsertOrAssign(st, e, c) ==
    [st EXCEPT !.map = MapInsertOrAssign(@, e, c), !.entities = @ \cup {e}]

StorageContains(st, e) == e \in DOMAIN st.map

\* ---------------------------------------------------------------- World
HasStorage(cs, t) == t \in DOMAIN cs

EnsureStorage(cs, t) ==
    IF HasStorage(cs, t)
    THEN cs
    ELSE [x \in (DOMAIN cs) \cup {t} |-> IF x = t THEN EmptyStorage ELSE cs[x]]

Has(cs, t, e) ==
    IF ~HasStorage(cs, t) THEN FALSE ELSE StorageContains(cs[t], e)

\* get<T>(e) fails with out_of_range exactly when GetThrows
GetThrows(cs, t, e) == ~HasStorage(cs, t) \/ ~StorageContains(cs[t], e)

Get(cs, t, e) == cs[t].map[e]

\* what a caller can read of (t, e): {} when has<T>(e) is false, else {get<T>(e)}
Read(cs, t, e) == IF Has(cs, t, e) THEN {Get(cs, t, e)} ELSE {}

OnCreate(cs, t) == cs[t].createEventDispatcher
OnUpdate(cs, t) == cs[t].updateEventDispatcher
OnRemove(cs, t) == cs[t].removeEventDispatcher

\* the dispatcher of storage t that on<Phase><T>() returns
On(cs, t, ph) ==
    CASE ph = "create" -> OnCreate(cs, t)
      [] ph = "update" -> OnUpdate(cs, t)
      [] ph = "remove" -> OnRemove(cs, t)

SetDispatcher(st, ph, d) ==
    CASE ph = "create" -> [st EXCEPT !.createEventDispatcher = d]
      [] ph = "update" -> [st EXCEPT !.updateEventDispatcher = d]
      [] ph = "remove" -> [st EXCEPT !.removeEventDispatcher = d]

Size == Cardinality(entities)

\* ------------------------------------------------------------ the caller
NoRet == [op |-> "none"]

\* the caller is between two calls: nothing is in progress and it has taken
\* the last result
Idle == stack = <<>> /\ ret = NoRet

InCall == stack # <<>>

Top == stack[Len(stack)]

Popped == SubSeq(stack, 1, Len(stack) - 1)

\* a subscriber callback: it records what it reads of the World when invoked;
\* label is the accessor (type, phase) its owner connected it through
Observer(t, ph) == [kind |-> "observe", label |-> <<t, ph>>]

RECURSIVE SetSum(_, _)
SetSum(S, f) ==
    IF S = {} THEN 0
    ELSE LET x == CHOOSE y \in S : TRUE IN f[x] + SetSum(S \ {x}, f)

\* how often connect has been called on this World
Connects(cs) ==
    SetSum(DOMAIN cs,
           [t \in DOMAIN cs |->
               cs[t].createEventDispatcher.nextCallbackId
             + cs[t].updateEventDispatcher.nextCallbackId
             + cs[t].removeEventDispatcher.nextCallbackId])

\* a storage with one dispatcher for its three kinds of event
PublishPendingAllPhases(cs, t, ph) ==
    UNION {{<<t, q, id>> : id \in DOMAIN On(cs, t, q).callbacks} : q \in Phases}

\* publish(world, entity) on dispatcher (t, ph): the callbacks it will invoke
PublishPending(cs, t, ph) ==
    {<<t, ph, id>> : id \in DOMAIN On(cs, t, ph).callbacks}

\* ---------------------------------------------------------------- assign
\* isCreated read after the insert instead of before it
AssignIsCreatedAfterInsert(cs, t, e) ==
    ~Has([cs EXCEPT ![t] = StorageInsertOrAssign(@, e, 0)], t, e)

\* bool isCreated = not has<Component>(entity), read before the insert
AssignIsCreated(cs, t, e) == ~Has(cs, t, e)

AssignPhase(isCreated) == IF isCreated THEN "create" ELSE "update"

\* assign<T>(e, v) up to the first subscriber callback: the new storage and
\* the frame of the call
AssignEnter(cs, t, e, v) ==
    LET cs1 == EnsureStorage(cs, t)
        isCreated == AssignIsCreated(cs1, t, e)
        cs2 == [cs1 EXCEPT ![t] = StorageInsertOrAssign(@, e, v)]
        ph == AssignPhase(isCreated)
    IN [cs |-> cs2,
        frame |-> [op |-> "assign", type |-> t, entity |-> e, value |-> v,
                   before |-> Read(cs, t, e),
                   published |-> <<[type |-> t, phase |-> ph, entity |-> e]>>,
                   pending |-> PublishPending(cs2, t, ph),
                   invoked |-> <<>>]]

Assign(t, e, v) ==
    /\ Idle
    /\ LET r == AssignEnter(componentStorage, t, e, v)
       IN /\ componentStorage' = r.cs
          /\ stack' = <<r.frame>>
    /\ ret' = NoRet
    /\ UNCHANGED <<entities, nextEntityId, returnedIds, subscriptions>>

AssignReturn ==
    /\ InCall
    /\ Top.op = "assign"
    /\ Top.pending = {}
    /\ stack' = Popped
    /\ ret' = Top @@ [after |-> Read(componentStorage, Top.type, Top.entity)]
    /\ UNCHANGED <<entities, nextEntityId, componentStorage, returnedIds, subscriptions>>

\* ---------------------------------------------------------------- remove
\* remove<T>(e) with the erase moved in front of the publish
RemoveEnterEraseFirst(cs, t, e) ==
    LET cs1 == EnsureStorage(cs, t)
    IN [cs |-> [cs1 EXCEPT ![t] = StorageErase(@, e)],
        frame |-> [op |-> "remove", type |-> t, entity |-> e,
                   before |-> Read(cs, t, e),
                   published |-> <<[type |-> t, phase |-> "remove", entity |-> e]>>,
                   pending |-> PublishPending(cs1, t, "remove"),
                   invoked |-> <<>>]]

\* remove<T>(e) up to the first subscriber callback: onRemove<T>() creates the
\* storage, publish comes before the erase
RemoveEnter(cs, t, e) ==
    LET cs1 == EnsureStorage(cs, t)
    IN [cs |-> cs1,
        frame |-> [op |-> "remove", type |-> t, entity |-> e,
                   before |-> Read(cs, t, e),
                   published |-> <<[type |-> t, phase |-> "remove", entity |-> e]>>,
                   pending |-> PublishPending(cs1, t, "remove"),
                   invoked |-> <<>>]]

Remove(t, e) ==
    /\ Idle
    /\ LET r == RemoveEnter(componentStorage, t, e)
       IN /\ componentStorage' = r.cs
          /\ stack' = <<r.frame>>
    /\ ret' = NoRet
    /\ UNCHANGED <<entities, nextEntityId, returnedIds, subscriptions>>

\* the callbacks have run: getStorage<T>().erase(entity), then return
RemoveReturn ==
    /\ InCall
    /\ Top.op = "remove"
    /\ Top.pending = {}
    /\ componentStorage' =
           [componentStorage EXCEPT ![Top.type] = StorageErase(@, Top.entity)]
    /\ stack' = Popped
    /\ ret' = Top @@ [after |-> Read(componentStorage', Top.type, Top.entity)]
    /\ UNCHANGED <<entities, nextEntityId, returnedIds, subscriptions>>

\* -------------------------------------------------- get, transform, patch
\* the callables given to transform and patch: one that depends on the old
\* value and one that does not
Callables == {"increment", "reset"}

\* f(c) for a component c
CallableResult(f, c) ==
    CASE f = "increment" -> (c + 1) % (MaxValue + 1)
      [] f = "reset" -> 0

\* transform or patch that reaches the component with operator[] in place of
\* at(): a missing storage or component is made, value-initialised
UpdateEnterSubscript(op, cs, t, e, f) ==
    LET cs1 == EnsureStorage(cs, t)
        old == IF Has(cs1, t, e) THEN Get(cs1, t, e) ELSE 0
        cs2 == [cs1 EXCEPT ![t] = StorageInsertOrAssign(@, e, CallableResult(f, old))]
    IN [cs |-> cs2, threw |-> FALSE,
        frame |-> [op |-> op, type |-> t, entity |-> e, f |-> f,
                   threw |-> FALSE, hadStorage |-> HasStorage(cs, t),
                   before |-> Read(cs, t, e), fcalls |-> 1,
                   published |-> <<[type |-> t, phase |-> "update", entity |-> e]>>,
                   pending |-> PublishPending(cs2, t, "update"),
                   invoked |-> <<>>]]

\* patch that calls f on a copy of the component
PatchedByValue(f, c) == c

\* transform that drops the result: f(component) in place of
\* component = f(component)
TransformedDiscarded(f, c) == c

\* component = f(component)
Transformed(f, c) == CallableResult(f, c)

\* f(component), f taking the component by reference
Patched(f, c) == CallableResult(f, c)

\* transform<T>(e, f) and patch<T>(e, f) up to the first subscriber callback:
\* getStorage<T>().at(e) throws out_of_range, or the component is rewritten
\* through the reference and the update event is published
UpdateEnter(op, cs, t, e, f) ==
    IF GetThrows(cs, t, e)
    THEN [cs |-> cs, threw |-> TRUE,
          frame |-> [op |-> op, type |-> t, entity |-> e, f |-> f,
                     threw |-> TRUE, hadStorage |-> HasStorage(cs, t),
                     before |-> Read(cs, t, e), fcalls |-> 0,
                     published |-> <<>>, pending |-> {}, invoked |-> <<>>]]
    ELSE LET old == Get(cs, t, e)
             new == IF op = "transform" THEN Transformed(f, old)
                                        ELSE Patched(f, old)
             cs1 == [cs EXCEPT ![t].map[e] = new]
         IN [cs |-> cs1, threw |-> FALSE,
             frame |-> [op |-> op, type |-> t, entity |-> e, f |-> f,
                        threw |-> FALSE, hadStorage |-> TRUE,
                        before |-> {old}, fcalls |-> 1,
                        published |-> <<[type |-> t, phase |-> "update",
                                         entity |-> e]>>,
                        pending |-> PublishPending(cs1, t, "update"),
                        invoked |-> <<>>]]

\* what a failed call leaves for its caller: the exception, and the World as
\* it was when the call was made
Thrown(fr, ents, cs) == fr @@ [entitiesAtCall |-> ents, storageAtCall |-> cs]

Update(op, t, e, f) ==
    /\ Idle
    /\ LET r == UpdateEnter(op, componentStorage, t, e, f)
       IN /\ componentStorage' = r.cs
          /\ IF r.threw
             THEN /\ ret' = Thrown(r.frame, entities, componentStorage)
                  /\ UNCHANGED stack
             ELSE /\ stack' = <<r.frame>>
                  /\ ret' = NoRet
    /\ UNCHANGED <<entities, nextEntityId, returnedIds, subscriptions>>

Transform(t, e, f) == Update("transform", t, e, f)

Patch(t, e, f) == Update("patch", t, e, f)

\* the callbacks of the update event have run: transform or patch returns
UpdateReturn ==
    /\ InCall
    /\ Top.op \in {"transform", "patch"}
    /\ Top.pending = {}
    /\ stack' = Popped
    /\ ret' = Top @@ [after |-> Read(componentStorage, Top.type, Top.entity)]
    /\ UNCHANGED <<entities, nextEntityId, componentStorage, returnedIds, subscriptions>>

\* get<T>(e) const: the stored value, or out_of_range
GetCall(t, e) ==
    /\ Idle
    /\ LET fr == [op |-> "get", type |-> t, entity |-> e,
                  threw |-> GetThrows(componentStorage, t, e),
                  hadStorage |-> HasStorage(componentStorage, t),
                  before |-> Read(componentStorage, t, e), fcalls |-> 0,
                  published |-> <<>>, pending |-> {}, invoked |-> <<>>,
                  result |-> Read(componentStorage, t, e)]
       IN ret' = Thrown(fr, entities, componentStorage)
    /\ UNCHANGED <<entities, nextEntityId, componentStorage, stack, returnedIds, subscriptions>>

\* ---------------------------------------------------------- createEntity
\* Entity{nextEntityId} in place of Entity{nextEntityId++}
NextEntityIdKept(n) == n

\* nextEntityId++
NextEntityIdAfter(n) == n + 1

CreateEntity ==
    /\ Idle
    /\ nextEntityId < MaxEntities
    /\ LET newEntity == nextEntityId
       IN /\ nextEntityId' = NextEntityIdAfter(nextEntityId)
          /\ entities' = entities \cup {newEntity}
          /\ ret' = [op |-> "createEntity", result |-> newEntity,
                     earlier |-> returnedIds,
                     sizeBefore |-> Size, sizeAfter |-> Cardinality(entities')]
          /\ returnedIds' = returnedIds \cup {newEntity}
    /\ UNCHANGED <<componentStorage, stack, subscriptions>>

\* --------------------------------------------------------- destroyEntity
\* destroyEntity publishing the remove event of every component it erases
DestroyEntityPendingRemove(cs, e) ==
    UNION {PublishPending(cs, t, "remove") : t \in {x \in DOMAIN cs : Has(cs, x, e)}}

\* the subscriber callbacks destroyEntity invokes: it publishes nothing
DestroyEntityPending(cs, e) == {}

\* for (auto&& [_, storage]: componentStorage) storage->erase(entity)
DestroyEntityErase(cs, e) == [t \in DOMAIN cs |-> StorageErase(cs[t], e)]

DestroyEntityEnter(cs, ents, e) ==
    [cs |-> DestroyEntityErase(cs, e),
     entities |-> ents \ {e},
     frame |-> [op |-> "destroyEntity", entity |-> e,
                wasLive |-> e \in ents,
                held |-> {t \in Types : Has(cs, t, e)},
                sizeBefore |-> Cardinality(ents),
                storageChanged |-> DestroyEntityErase(cs, e) # cs,
                entitiesChanged |-> (ents \ {e}) # ents,
                published |-> <<>>,
                pending |-> DestroyEntityPending(cs, e),
                invoked |-> <<>>]]

DestroyEntity(e) ==
    /\ Idle
    /\ LET r == DestroyEntityEnter(componentStorage, entities, e)
       IN /\ componentStorage' = r.cs
          /\ entities' = r.entities
          /\ stack' = <<r.frame>>
    /\ ret' = NoRet
    /\ UNCHANGED <<nextEntityId, returnedIds, subscriptions>>

DestroyEntityReturn ==
    /\ InCall
    /\ Top.op = "destroyEntity"
    /\ Top.pending = {}
    /\ stack' = Popped
    /\ ret' = Top @@ [sizeAfter |-> Size,
                      after |-> {t \in Types : Has(componentStorage, t, Top.entity)}]
    /\ UNCHANGED <<entities, nextEntityId, componentStorage, returnedIds, subscriptions>>

\* ------------------------------------------------- connect and disconnect
\* the subscriber callbacks that call back into the World they are given,
\* with the entity of the event: assign<U>(entity, v) for any type U,
\* remove<T>(entity) and view<T>().each for the type T of their own channel
Subscribers(t, ph) ==
    {Observer(t, ph)}
    \cup {[kind |-> "assign", label |-> <<t, ph>>, type |-> u, value |-> MaxValue] :
             u \in Types}
    \cup {[kind |-> "remove", label |-> <<t, ph>>, type |-> t],
          [kind |-> "view", label |-> <<t, ph>>, components |-> <<t>>]}

\* the ids connect has returned on dispatcher (t, ph)
ReturnedOn(t, ph) ==
    {s[3] : s \in {x \in subscriptions.returned : x[1] = t /\ x[2] = ph}}

\* world.on<Phase><T>().connect(f), as long as connect was called less than
\* max times
ConnectCallback(t, ph, f, max) ==
    /\ Idle
    /\ Connects(componentStorage) < max
    /\ LET cs1 == EnsureStorage(componentStorage, t)
           d == On(cs1, t, ph)
           id == DispatcherConnectId(d)
       IN /\ componentStorage' =
                 [cs1 EXCEPT ![t] = SetDispatcher(@, ph, DispatcherConnect(d, f))]
          /\ ret' = [op |-> "connect", type |-> t, phase |-> ph,
                     result |-> id, earlier |-> ReturnedOn(t, ph)]
          /\ subscriptions' =
                 [returned |-> subscriptions.returned \cup {<<t, ph, id>>},
                  disconnected |-> subscriptions.disconnected \ {<<t, ph, id>>}]
    /\ UNCHANGED <<entities, nextEntityId, stack, returnedIds>>

\* world.on<Phase><T>().connect(callback), the callback one that only looks
Connect(t, ph) == ConnectCallback(t, ph, Observer(t, ph), MaxCallbacks)

\* world.on<Phase><T>().disconnect(callbackId)
Disconnect(t, ph, callbackId) ==
    /\ Idle
    /\ LET cs1 == EnsureStorage(componentStorage, t)
           d == On(cs1, t, ph)
           after == DispatcherDisconnect(d, callbackId)
       IN /\ componentStorage' = [cs1 EXCEPT ![t] = SetDispatcher(@, ph, after)]
          /\ ret' = [op |-> "disconnect", type |-> t, phase |-> ph,
                     id |-> callbackId,
                     wasConnected |-> callbackId \in DOMAIN d.callbacks,
                     before |-> d, after |-> after]
          /\ subscriptions' =
                 IF <<t, ph, callbackId>> \in subscriptions.returned
                 THEN [subscriptions EXCEPT
                          !.disconnected = @ \cup {<<t, ph, callbackId>>}]
                 ELSE subscriptions
    /\ UNCHANGED <<entities, nextEntityId, stack, returnedIds>>

\* ----------------------------------------------------------------- View
\* the template argument lists view<...>() is called with
ComponentLists ==
    {<<t>> : t \in Types}
    \cup {p \in Types \X Types : p[1] # p[2]}

Range(s) == {s[i] : i \in DOMAIN s}

\* a std::set<Entity> in iteration order (ascending)
RECURSIVE SetToSeq(_)
SetToSeq(S) ==
    IF S = {} THEN <<>>
    ELSE LET m == CHOOSE x \in S : \A y \in S : x <= y
         IN <<m>> \o SetToSeq(S \ {m})

\* getStorage<T>() is componentStorage.at(typeid(T)): out_of_range when the
\* World has no storage for T
GetStorageThrows(cs, t) == ~HasStorage(cs, t)

\* view() without its hasStorage test
ViewThrowsUnchecked(cs, comps) ==
    \E i \in DOMAIN comps : GetStorageThrows(cs, comps[i])

\* World::view<Components...>() fails when a getStorage it calls fails; it
\* calls none unless every storage exists
ViewThrows(cs, comps) ==
    IF ~(\A i \in DOMAIN comps : HasStorage(cs, comps[i]))
    THEN FALSE
    ELSE \E i \in DOMAIN comps : GetStorageThrows(cs, comps[i])

\* World::view<Components...>() and the View constructor: copies of the
\* storages, or empty storages when one of them does not exist
ViewStorages(cs, comps) ==
    IF ~(\A i \in DOMAIN comps : HasStorage(cs, comps[i]))
    THEN [t \in Range(comps) |-> EmptyStorage]
    ELSE [t \in Range(comps) |-> cs[t]]

\* a view that holds references to the World's storages instead of copies
ViewGetStorageLive(storages, cs, t) == IF HasStorage(cs, t) THEN cs[t] ELSE storages[t]

\* View::getStorage<T>(): the view's own copy of the storage of T, whatever
\* the World's storage of T has become since
ViewGetStorage(storages, cs, t) == storages[t]

\* (getStorage<Components>().contains(entity) && ...)
ViewContainsAll(storages, cs, comps, e) ==
    \A i \in DOMAIN comps :
        StorageContains(ViewGetStorage(storages, cs, comps[i]), e)

\* getStorage<Components>().at(entity)...: {value}, or {} where at() throws
ViewArgs(storages, cs, comps, e) ==
    [i \in DOMAIN comps |->
        LET st == ViewGetStorage(storages, cs, comps[i])
        IN IF StorageContains(st, e) THEN {st.map[e]} ELSE {}]

\* what the World held when the view was made: type -> (entity -> value)
Snapshot(cs) == [t \in Types |-> IF HasStorage(cs, t) THEN cs[t].map ELSE EmptyMap]

\* the callables given to each: f(entity, components...) does nothing to the
\* World, or calls assign<T>(x, v), remove<T>(x) or destroyEntity(x) on it,
\* where x is the entity f was called with (target {}) or one fixed entity
\* (target {x})
EachTargets == {{}} \cup {{x} : x \in EntityIds}

EachCallables ==
    {[kind |-> "none"]}
    \cup {[kind |-> "destroyEntity", target |-> x] : x \in EachTargets}
    \cup {[kind |-> "assign", type |-> t, value |-> v, target |-> x] :
             t \in Types, v \in Values, x \in EachTargets}
    \cup {[kind |-> "remove", type |-> t, target |-> x] :
             t \in Types, x \in EachTargets}

\* the call each(f) on the view made of cs, walking the entities of base
EachFrame(cs, ents, comps, f, base) ==
    LET storages == ViewStorages(cs, comps)
    IN [op |-> "each", components |-> comps, f |-> f, threw |-> FALSE,
        storages |-> storages, base |-> base,
        todo |-> SetToSeq(storages[base].entities),
        calls |-> <<>>,
        existed |-> DOMAIN cs,
        liveBefore |-> ents,
        pre |-> Snapshot(cs)]

\* world.view<comps>().each(f): the view is made; base is storages.begin(),
\* whichever type the unordered_map puts first
EachCall(comps, f) ==
    /\ Idle
    /\ IF ViewThrows(componentStorage, comps)
       THEN /\ ret' = [op |-> "each", components |-> comps, f |-> f,
                       threw |-> TRUE]
            /\ UNCHANGED stack
       ELSE /\ \E base \in Range(comps) :
                  stack' = <<EachFrame(componentStorage, entities, comps, f, base)>>
            /\ UNCHANGED ret
    /\ UNCHANGED <<entities, nextEntityId, componentStorage, returnedIds, subscriptions>>

\* the entities of todo that pass the membership test, in order
EachPassing(fr, cs) ==
    SelectSeq(fr.todo,
              LAMBDA e : ViewContainsAll(fr.storages, cs, fr.components, e))

\* the index in todo of the first entity that passes the membership test
EachNext(fr, cs) ==
    CHOOSE i \in DOMAIN fr.todo :
        /\ ViewContainsAll(fr.storages, cs, fr.components, fr.todo[i])
        /\ \A j \in 1..(i - 1) :
              ~ViewContainsAll(fr.storages, cs, fr.components, fr.todo[j])

\* the entity f acts on when called with entity e
EachTarget(f, e) == IF f.target = {} THEN e ELSE CHOOSE x \in f.target : TRUE

\* the loop of each runs up to and into the next call of f: the entities that
\* fail the test are skipped, f(entity, components...) runs on the first that
\* passes
EachVisit ==
    /\ InCall
    /\ Top.op = "each"
    /\ EachPassing(Top, componentStorage) # <<>>
    /\ LET i == EachNext(Top, componentStorage)
           e == Top.todo[i]
           call == [entity |-> e,
                    args |-> ViewArgs(Top.storages, componentStorage,
                                      Top.components, e)]
           fr == [Top EXCEPT !.todo = SubSeq(@, i + 1, Len(@)),
                             !.calls = Append(@, call)]
           under == [stack EXCEPT ![Len(stack)] = fr]
           f == Top.f
       IN CASE f.kind = "none" ->
                 /\ stack' = under
                 /\ UNCHANGED <<entities, componentStorage, ret>>
            [] f.kind = "assign" ->
                 LET r == AssignEnter(componentStorage, f.type,
                                      EachTarget(f, e), f.value)
                 IN /\ componentStorage' = r.cs
                    /\ stack' = Append(under, r.frame)
                    /\ ret' = NoRet
                    /\ UNCHANGED entities
            [] f.kind = "remove" ->
                 LET r == RemoveEnter(componentStorage, f.type, EachTarget(f, e))
                 IN /\ componentStorage' = r.cs
                    /\ stack' = Append(under, r.frame)
                    /\ ret' = NoRet
                    /\ UNCHANGED entities
            [] f.kind = "destroyEntity" ->
                 LET r == DestroyEntityEnter(componentStorage, entities,
                                             EachTarget(f, e))
                 IN /\ componentStorage' = r.cs
                    /\ entities' = r.entities
                    /\ stack' = Append(under, r.frame)
                    /\ ret' = NoRet
    /\ UNCHANGED <<nextEntityId, returnedIds, subscriptions>>

\* no entity is left that passes the test: each returns
EachReturn ==
    /\ InCall
    /\ Top.op = "each"
    /\ EachPassing(Top, componentStorage) = <<>>
    /\ stack' = Popped
    /\ ret' = [Top EXCEPT !.todo = <<>>]
                  @@ [post |-> Snapshot(componentStorage), live |-> entities]
    /\ UNCHANGED <<entities, nextEntityId, componentStorage, returnedIds, subscriptions>>

\* ------------------------------------------------------- View::Iterator
\* for (auto&& [e, components...]: world.view<comps>()): the view is made and
\* begin() is taken; pos indexes the base set in order, Len + 1 is end()
IterateCall(comps) ==
    /\ Idle
    /\ IF ViewThrows(componentStorage, comps)
       THEN /\ ret' = [op |-> "iterate", components |-> comps, threw |-> TRUE]
            /\ UNCHANGED stack
       ELSE /\ LET storages == ViewStorages(componentStorage, comps)
               IN \E base \in DOMAIN storages :
                     stack' = <<[op |-> "iterate", components |-> comps,
                                 storages |-> storages, base |-> base,
                                 order |-> SetToSeq(storages[base].entities),
                                 pos |-> 1, pc |-> "test",
                                 yielded |-> <<>>, threw |-> FALSE,
                                 pastEnd |-> FALSE,
                                 pre |-> Snapshot(componentStorage)]>>
            /\ UNCHANGED ret
    /\ UNCHANGED <<entities, nextEntityId, componentStorage, returnedIds, subscriptions>>

IteratorAtEnd(fr) == fr.pos = Len(fr.order) + 1

\* operator*: entity = *entityIterator; std::tie(entity, at(entity)...).
\* at() throws out_of_range when a storage lacks the entity.  The tuple holds
\* a reference to the local `entity`, dead once operator* returns: the loop
\* body reads whatever that memory holds then
OperatorDeref ==
    /\ InCall
    /\ Top.op = "iterate"
    /\ Top.pc = "test"
    /\ ~IteratorAtEnd(Top)
    /\ LET e == Top.order[Top.pos]
       IN IF ViewContainsAll(Top.storages, componentStorage, Top.components, e)
          THEN \E seen \in EntityIds :
                  stack' = [stack EXCEPT ![Len(stack)] =
                      [@ EXCEPT !.pc = "increment",
                                !.yielded = Append(@,
                                    [entity |-> seen,
                                     args |-> ViewArgs(Top.storages,
                                                       componentStorage,
                                                       Top.components, e)])]]
          ELSE stack' = [stack EXCEPT ![Len(stack)] =
                      [@ EXCEPT !.pc = "thrown", !.threw = TRUE]]
    /\ UNCHANGED <<entities, nextEntityId, componentStorage, ret, returnedIds, subscriptions>>

\* operator++ from position pos:
\*   while (entityIterator != endIterator)
\*   { ++entityIterator; entity = *entityIterator; if (all contain) break; }
\* *entityIterator is read even when the increment reached end(): that read
\* yields some Entity g
RECURSIVE IncrementFrom(_, _, _, _)
IncrementFrom(fr, cs, pos, g) ==
    IF pos = Len(fr.order) + 1
    THEN [pos |-> pos, pastEnd |-> FALSE]
    ELSE LET next == pos + 1
             atEnd == next = Len(fr.order) + 1
             entity == IF atEnd THEN g ELSE fr.order[next]
         IN IF ViewContainsAll(fr.storages, cs, fr.components, entity)
            THEN [pos |-> next, pastEnd |-> atEnd]
            ELSE IF atEnd
                 THEN [pos |-> next, pastEnd |-> TRUE]
                 ELSE IncrementFrom(fr, cs, next, g)

OperatorIncrement ==
    /\ InCall
    /\ Top.op = "iterate"
    /\ Top.pc = "increment"
    /\ \E g \in EntityIds :
          LET r == IncrementFrom(Top, componentStorage, Top.pos, g)
          IN stack' = [stack EXCEPT ![Len(stack)] =
                 [@ EXCEPT !.pc = "test", !.pos = r.pos,
                           !.pastEnd = @ \/ r.pastEnd]]
    /\ UNCHANGED <<entities, nextEntityId, componentStorage, ret, returnedIds, subscriptions>>

\* the loop ends: the iterator equals end(), or operator* threw
IterateReturn ==
    /\ InCall
    /\ Top.op = "iterate"
    /\ \/ Top.pc = "thrown"
       \/ Top.pc = "test" /\ IteratorAtEnd(Top)
    /\ stack' = Popped
    /\ ret' = Top
    /\ UNCHANGED <<entities, nextEntityId, componentStorage, returnedIds, subscriptions>>

\* ------------------------------------------------- EventDispatcher::publish
\* a publish that ends at the first callback that called back into the World
AfterCallbackStopOnNested(fr, p, call) ==
    [fr EXCEPT !.pending = IF call.kind = "observe" THEN @ \ {p} ELSE {},
               !.invoked = Append(@, call)]

\* the loop of publish after callback(world, entity) was called for item p
AfterCallback(fr, p, call) ==
    [fr EXCEPT !.pending = @ \ {p}, !.invoked = Append(@, call)]

\* one callback of the publish in progress runs: callback(world, entity).
\* It reads the World; one that calls assign, remove or view on the World
\* enters that call, and the publish goes on when the call has returned
InvokeCallback ==
    /\ InCall
    /\ Top.op \in {"assign", "remove", "destroyEntity", "transform", "patch"}
    /\ \E p \in Top.pending :
          LET cb == On(componentStorage, p[1], p[2]).callbacks[p[3]]
              call == [type |-> p[1], phase |-> p[2], id |-> p[3],
                       label |-> cb.label, kind |-> cb.kind,
                       entity |-> Top.entity,
                       seen |-> Read(componentStorage, p[1], Top.entity)]
              under == [stack EXCEPT ![Len(stack)] = AfterCallback(@, p, call)]
          IN CASE cb.kind = "observe" ->
                    /\ stack' = under
                    /\ UNCHANGED componentStorage
               [] cb.kind = "assign" ->
                    /\ Len(stack) < MaxDepth
                    /\ LET r == AssignEnter(componentStorage, cb.type,
                                            Top.entity, cb.value)
                       IN /\ componentStorage' = r.cs
                          /\ stack' = Append(under, r.frame)
               [] cb.kind = "remove" ->
                    /\ Len(stack) < MaxDepth
                    /\ LET r == RemoveEnter(componentStorage, cb.type, Top.entity)
                       IN /\ componentStorage' = r.cs
                          /\ stack' = Append(under, r.frame)
               [] cb.kind = "view" ->
                    /\ Len(stack) < MaxDepth
                    /\ ~ViewThrows(componentStorage, cb.components)
                    /\ stack' = Append(under,
                                       EachFrame(componentStorage, entities,
                                                 cb.components, [kind |-> "none"],
                                                 cb.components[1]))
                    /\ UNCHANGED componentStorage
    /\ ret' = NoRet
    /\ UNCHANGED <<entities, nextEntityId, returnedIds, subscriptions>>

\* ------------------------------------------------------------ the caller
\* the caller has looked at the result of its last call and goes on
CallerContinues ==
    /\ stack = <<>>
    /\ ret # NoRet
    /\ ret' = NoRet
    /\ UNCHANGED <<entities, nextEntityId, componentStorage, stack, returnedIds, subscriptions>>

\* ------------------------------------------------------------------ Spec
Init ==
    /\ entities = {}
    /\ nextEntityId = 0
    /\ componentStorage = [t \in {} |-> EmptyStorage]
    /\ stack = <<>>
    /\ ret = NoRet
    /\ returnedIds = {}
    /\ subscriptions = [returned |-> {}, disconnected |-> {}]

Next ==
    \/ CreateEntity
    \/ \E e \in EntityIds : DestroyEntity(e)
    \/ DestroyEntityReturn
    \/ \E t \in Types, e \in EntityIds, v \in Values : Assign(t, e, v)
    \/ AssignReturn
    \/ \E t \in Types, e \in EntityIds : Remove(t, e)
    \/ RemoveReturn
    \/ \E t \in Types, e \in EntityIds, f \in Callables : Transform(t, e, f)
    \/ \E t \in Types, e \in EntityIds, f \in Callables : Patch(t, e, f)
    \/ UpdateReturn
    \/ \E t \in Types, e \in EntityIds : GetCall(t, e)
    \/ InvokeCallback
    \/ \E t \in Types, ph \in Phases : Connect(t, ph)
    \/ \E t \in Types, ph \in Phases, id \in 0..(MaxCallbacks - 1) :
          Disconnect(t, ph, id)
    \/ CallerContinues

Spec == Init /\ [][Next]_vars

\* the World under queries: entity and component calls and the two ways to
\* walk a View, with no subscriber connected
NextView ==
    \/ CreateEntity
    \/ \E e \in EntityIds : DestroyEntity(e)
    \/ DestroyEntityReturn
    \/ \E t \in Types, e \in EntityIds, v \in Values : Assign(t, e, v)
    \/ AssignReturn
    \/ \E t \in Types, e \in EntityIds : Remove(t, e)
    \/ RemoveReturn
    \/ \E comps \in ComponentLists, f \in EachCallables : EachCall(comps, f)
    \/ EachVisit
    \/ EachReturn
    \/ \E comps \in ComponentLists : IterateCall(comps)
    \/ OperatorDeref
    \/ OperatorIncrement
    \/ IterateReturn
    \/ CallerContinues

SpecView == Init /\ [][NextView]_vars

\* the dispatchers with more than one subscriber: component calls that
\* publish, connect and disconnect, subscribers that only look
NextEvents ==
    \/ \E t \in Types, e \in EntityIds, v \in Values : Assign(t, e, v)
    \/ AssignReturn
    \/ \E t \in Types, e \in EntityIds : Remove(t, e)
    \/ RemoveReturn
    \/ \E t \in Types, e \in EntityIds, f \in Callables : Transform(t, e, f)
    \/ \E t \in Types, e \in EntityIds, f \in Callables : Patch(t, e, f)
    \/ UpdateReturn
    \/ InvokeCallback
    \/ \E t \in Types, ph \in Phases :
          ConnectCallback(t, ph, Observer(t, ph), MaxSubscribers)
    \/ \E t \in Types, ph \in Phases, id \in 0..(MaxSubscribers - 1) :
          Disconnect(t, ph, id)
    \/ CallerContinues

SpecEvents == Init /\ [][NextEvents]_vars

\* the World called from inside its own callbacks: subscribers that call
\* assign, remove and view on the World that invoked them; transform is
\* given the callable that depends on the old value, patch the one that
\* does not
NextReentrant ==
    \/ \E e \in EntityIds : DestroyEntity(e)
    \/ DestroyEntityReturn
    \/ \E t \in Types, e \in EntityIds, v \in Values : Assign(t, e, v)
    \/ AssignReturn
    \/ \E t \in Types, e \in EntityIds : Remove(t, e)
    \/ RemoveReturn
    \/ \E t \in Types, e \in EntityIds : Transform(t, e, "increment")
    \/ \E t \in Types, e \in EntityIds : Patch(t, e, "reset")
    \/ UpdateReturn
    \/ InvokeCallback
    \/ EachVisit
    \/ EachReturn
    \/ \E t \in Types, ph \in Phases :
          \E f \in Subscribers(t, ph) : ConnectCallback(t, ph, f, MaxSubscribers)
    \/ CallerContinues

SpecReentrant == Init /\ [][NextReentrant]_vars

\* ================================================================ claims
\* the event an assign call is to publish, by what the entity held before it
AssignEvent(r) ==
    [type |-> r.type,
     phase |-> IF r.before = {} THEN "create" ELSE "update",
     entity |-> r.entity]

\* the callbacks a returned call invoked, as (type, phase, id)
InvokedOf(r) == {<<c.type, c.phase, c.id>> : c \in Range(r.invoked)}

\* C1: every assign<T>(e, ...) publishes exactly one event for (T, e): the
\* create event when e did not hold T just before the call, the update event
\* otherwise, never both and never none; each subscriber of that one
\* dispatcher runs once, with e, and no subscriber of another dispatcher runs.
C1_AssignPublishesExactlyOne ==
    ret.op = "assign" =>
        LET ev == AssignEvent(ret)
            subs == PublishPending(componentStorage, ev.type, ev.phase)
        IN /\ ret.published = <<ev>>
           /\ Len(ret.invoked) = Cardinality(subs)
           /\ InvokedOf(ret) = subs
           /\ \A c \in Range(ret.invoked) : c.entity = ret.entity

\* an assign over a component the entity already held, with an update
\* subscriber that ran
C1_Witness ==
    /\ ret.op = "assign"
    /\ ret.before # {}
    /\ Len(ret.invoked) = 1
    /\ ret.invoked[1].phase = "update"

\* C2: once assign<T>(e, v) has returned, has<T>(e) is true and get<T>(e) is v,
\* whatever e held before: nothing, v, or another value (last write wins).
C2_AssignThenGet ==
    ret.op = "assign" =>
        /\ Has(componentStorage, ret.type, ret.entity)
        /\ ~GetThrows(componentStorage, ret.type, ret.entity)
        /\ Get(componentStorage, ret.type, ret.entity) = ret.value
        /\ ret.after = {ret.value}

\* a second assign that overwrote a different value
C2_Witness ==
    /\ ret.op = "assign"
    /\ ret.before # {}
    /\ ret.before # {ret.value}
    /\ ret.after = {ret.value}

\* C3: remove<T>(e) on an entity that holds T publishes exactly one remove
\* event for (T, e) and publishes it before the erase: as long as the call is
\* in progress has<T>(e) is true and get<T>(e) is the stored value, every
\* remove subscriber of T runs once and reads that value, and once remove has
\* returned has<T>(e) is false.
C3_RemovePublishesThenErases ==
    /\ \A i \in DOMAIN stack :
          (stack[i].op = "remove" /\ stack[i].before # {}) =>
              Read(componentStorage, stack[i].type, stack[i].entity)
                  = stack[i].before
    /\ (ret.op = "remove" /\ ret.before # {}) =>
          LET subs == PublishPending(componentStorage, ret.type, "remove")
          IN /\ ret.published =
                    <<[type |-> ret.type, phase |-> "remove",
                       entity |-> ret.entity]>>
             /\ Len(ret.invoked) = Cardinality(subs)
             /\ InvokedOf(ret) = subs
             /\ \A c \in Range(ret.invoked) :
                   c.entity = ret.entity /\ c.seen = ret.before
             /\ ~Has(componentStorage, ret.type, ret.entity)
             /\ ret.after = {}

\* a remove of a held component whose remove subscriber ran
C3_Witness ==
    /\ ret.op = "remove"
    /\ ret.before # {}
    /\ Len(ret.invoked) = 1
    /\ ret.invoked[1].seen = ret.before

\* the entities that hold every type of comps in snapshot pre
Matching(pre, comps) ==
    {e \in UNION {DOMAIN pre[t] : t \in Types} :
        \A i \in DOMAIN comps : e \in DOMAIN pre[comps[i]]}

\* the calls f(entity, components...) a walk of the view is to make
ExpectedCalls(pre, comps) ==
    {[entity |-> e, args |-> [i \in DOMAIN comps |-> {pre[comps[i]][e]}]] :
        e \in Matching(pre, comps)}

\* C4: view<T1..Tn>().each(f) calls f exactly once for every entity that holds
\* all of T1..Tn when the view is made, with the value stored for each Ti,
\* and for no other entity; which entities are visited depends neither on the
\* order of the type arguments nor on the storage taken as the base set.
C4_EachVisitsTheMatching ==
    (ret.op = "each" /\ ~ret.threw /\ ret.f.kind = "none") =>
        /\ Len(ret.calls) = Cardinality(Matching(ret.pre, ret.components))
        /\ Range(ret.calls) = ExpectedCalls(ret.pre, ret.components)

\* a walk over two types whose base set holds an entity that lacks the other
\* type, and an entity that has both
C4_Witness ==
    /\ ret.op = "each"
    /\ ~ret.threw
    /\ ret.f.kind = "none"
    /\ Len(ret.components) = 2
    /\ Len(ret.calls) = 1
    /\ \E e \in DOMAIN ret.pre[ret.base] :
          e \notin Matching(ret.pre, ret.components)

\* C5: walking a View with begin(), operator*, operator++ up to end() yields
\* the entities and values each(f) visits, each once, skipping the entities
\* that fail the membership test, with no failing component access and no
\* read of an element at or past the end of the base set.
C5_IteratorYieldsWhatEachVisits ==
    ret.op = "iterate" =>
        /\ ~ret.threw
        /\ ~ret.pastEnd
        /\ Len(ret.yielded) = Cardinality(Matching(ret.pre, ret.components))
        /\ Range(ret.yielded) = ExpectedCalls(ret.pre, ret.components)

\* C6: view<T1..Tn>() never fails, and each(f) calls f zero times whenever
\* some Ti has no storage or no entity holds every Ti, however many entities
\* hold the other types.
C6_ViewWithoutMatchIsEmpty ==
    ret.op = "each" =>
        /\ ~ret.threw
        /\ ((\E i \in DOMAIN ret.components : ret.components[i] \notin ret.existed)
            \/ Matching(ret.pre, ret.components) = {})
           => ret.calls = <<>>

\* a view over a type without storage and a type that entities hold
C6_Witness ==
    /\ ret.op = "each"
    /\ ~ret.threw
    /\ \E i \in DOMAIN ret.components : ret.components[i] \notin ret.existed
    /\ \E i \in DOMAIN ret.components : ret.pre[ret.components[i]] # EmptyMap
    /\ ret.calls = <<>>

\* the World, as maps and live entities, after f ran once on entity e
ApplyCallable(w, f, e) ==
    LET x == EachTarget(f, e)
    IN CASE f.kind = "none" -> w
         [] f.kind = "assign" ->
              [w EXCEPT !.maps[f.type] = MapInsertOrAssign(@, x, f.value)]
         [] f.kind = "remove" ->
              [w EXCEPT !.maps[f.type] = MapErase(@, x)]
         [] f.kind = "destroyEntity" ->
              [maps |-> [t \in Types |-> MapErase(w.maps[t], x)],
               live |-> w.live \ {x}]

RECURSIVE ApplyCalls(_, _, _)
ApplyCalls(w, f, calls) ==
    IF calls = <<>> THEN w
    ELSE ApplyCalls(ApplyCallable(w, f, Head(calls).entity), f, Tail(calls))

\* C7: what the callable of each does to the World does not change the walk:
\* with f calling assign, remove or destroyEntity, on the visited entity or on
\* another one, each still calls f exactly once for every entity that held all
\* requested types when the view was made, with the values stored then, so at
\* most once per entity of the base set; and when each returns the World is
\* what those calls of f made it.
C7_EachUnderMutation ==
    (ret.op = "each" /\ ~ret.threw /\ ret.f.kind # "none") =>
        LET w == ApplyCalls([maps |-> ret.pre, live |-> ret.liveBefore],
                            ret.f, ret.calls)
        IN /\ Len(ret.calls) = Cardinality(Matching(ret.pre, ret.components))
           /\ Range(ret.calls) = ExpectedCalls(ret.pre, ret.components)
           /\ Len(ret.calls) <= Cardinality(DOMAIN ret.pre[ret.base])
           /\ ret.post = w.maps
           /\ ret.live = w.live
           /\ Snapshot(componentStorage) = ret.post

\* f removed the base-type component of an entity the walk had yet to visit,
\* and the walk visited it all the same
C7_Witness ==
    /\ ret.op = "each"
    /\ ~ret.threw
    /\ ret.f.kind = "remove"
    /\ ret.f.type = ret.base
    /\ Len(ret.calls) = 2
    /\ ret.f.target = {ret.calls[2].entity}
    /\ ret.calls[2].entity \notin DOMAIN ret.post[ret.base]

\* C8: destroyEntity(e) on a live entity makes has<T>(e) false for every T and
\* lowers size() by exactly 1; on an entity that is not live (never created,
\* or destroyed already) it changes neither the live-entity set, nor size(),
\* nor any component storage.
C8_DestroyEntity ==
    ret.op = "destroyEntity" =>
        IF ret.wasLive
        THEN /\ ret.after = {}
             /\ ret.sizeAfter = ret.sizeBefore - 1
        ELSE /\ ~ret.entitiesChanged
             /\ ret.sizeAfter = ret.sizeBefore
             /\ ~ret.storageChanged

\* C9: destroyEntity(e) invokes no subscriber callback: it publishes no
\* remove, create or update event, also for the types e held and with remove
\* subscribers connected.
C9_DestroyEntityPublishesNothing ==
    /\ \A i \in DOMAIN stack :
          stack[i].op = "destroyEntity" =>
              stack[i].pending = {} /\ stack[i].invoked = <<>>
    /\ ret.op = "destroyEntity" =>
          ret.published = <<>> /\ ret.invoked = <<>>

\* a destroyEntity of an entity that held a type with a remove subscriber
C9_Witness ==
    /\ ret.op = "destroyEntity"
    /\ \E t \in ret.held : PublishPending(componentStorage, t, "remove") # {}

\* C10: createEntity raises size() by exactly 1 and returns an identifier that
\* no earlier createEntity call returned, destroyed entities included.
C10_CreateEntityIsFresh ==
    ret.op = "createEntity" =>
        /\ ret.sizeAfter = ret.sizeBefore + 1
        /\ ret.result \notin ret.earlier
        /\ ret.result \in entities

\* a createEntity after an earlier entity was destroyed
C10_Witness ==
    /\ ret.op = "createEntity"
    /\ \E id \in ret.earlier : id \notin entities

\* C11: get<T>(e), transform<T>(e, f) and patch<T>(e, f) fail with
\* out_of_range whenever e does not hold T, with T's storage missing or
\* present without e: f is not called, nothing is published, no subscriber
\* runs, and the live entities, the storages and their dispatchers are what
\* they were when the call was made.
C11_MissingComponentThrows ==
    /\ \A i \in DOMAIN stack :
          stack[i].op \in {"transform", "patch"} => stack[i].before # {}
    /\ (ret.op \in {"get", "transform", "patch"} /\ ret.before = {}) =>
          /\ ret.threw
          /\ ret.fcalls = 0
          /\ ret.published = <<>>
          /\ ret.invoked = <<>>
          /\ ret.entitiesAtCall = entities
          /\ ret.storageAtCall = componentStorage

\* a transform that failed on a storage that exists without the entity, with
\* an update subscriber connected to that storage
C11_Witness ==
    /\ ret.op = "transform"
    /\ ret.threw
    /\ ret.hadStorage
    /\ PublishPending(componentStorage, ret.type, "update") # {}

\* the value a returned assign, transform or patch call was to store
NewValue(r) ==
    IF r.op = "assign" THEN r.value
    ELSE CallableResult(r.f, CHOOSE old \in r.before : TRUE)

\* C12: when e holds T with value old, transform<T>(e, f) makes get<T>(e)
\* return f(old) and patch<T>(e, f) makes it return old as f rewrote it; each
\* calls f once, publishes exactly one update event for (T, e), runs every
\* update subscriber of T once and no other subscriber, and leaves has<T>(e)
\* true.
C12_TransformAndPatch ==
    (ret.op \in {"transform", "patch"} /\ ret.before # {}) =>
        LET subs == PublishPending(componentStorage, ret.type, "update")
        IN /\ ~ret.threw
           /\ ret.fcalls = 1
           /\ Has(componentStorage, ret.type, ret.entity)
           /\ Get(componentStorage, ret.type, ret.entity) = NewValue(ret)
           /\ ret.after = {NewValue(ret)}
           /\ ret.published =
                  <<[type |-> ret.type, phase |-> "update", entity |-> ret.entity]>>
           /\ Len(ret.invoked) = Cardinality(subs)
           /\ InvokedOf(ret) = subs
           /\ \A c \in Range(ret.invoked) : c.entity = ret.entity

\* a patch that changed the value, with an update subscriber that ran
C12_Witness ==
    /\ ret.op = "patch"
    /\ ret.before # {}
    /\ ret.after # ret.before
    /\ Len(ret.invoked) = 1
    /\ ret.invoked[1].phase = "update"

\* P holds of the calls in progress and of the call that returned last
AllCalls(P(_)) == (\A i \in DOMAIN stack : P(stack[i])) /\ P(ret)

\* a call that published an event
Publishing(r) ==
    /\ r.op \in {"assign", "remove", "transform", "patch"}
    /\ r.published # <<>>

\* the subscriptions on dispatcher (t, ph) that connect returned and
\* disconnect was not called with
Subscribed(t, ph) ==
    {s \in subscriptions.returned \ subscriptions.disconnected :
        s[1] = t /\ s[2] = ph}

\* C13: once disconnect(id) was called on a dispatcher, no later publish on it
\* invokes the callback connect returned id for, and every other callback
\* still connected to it is invoked by each later publish; disconnect leaves
\* nextCallbackId and the other callbacks as they were, and with an id that
\* is absent or already disconnected it changes nothing.
C13_Disconnect ==
    /\ AllCalls(LAMBDA r :
          Publishing(r) =>
              \A c \in Range(r.invoked) :
                  <<c.type, c.phase, c.id>> \notin subscriptions.disconnected)
    /\ Publishing(ret) =>
          Subscribed(ret.published[1].type, ret.published[1].phase)
              \subseteq InvokedOf(ret)
    /\ ret.op = "disconnect" =>
          /\ ret.after.nextCallbackId = ret.before.nextCallbackId
          /\ ret.after.callbacks = MapErase(ret.before.callbacks, ret.id)
          /\ ~ret.wasConnected => ret.after = ret.before

\* two callbacks were connected to one dispatcher and one of them
\* disconnected: a later publish invoked the other one only
C13_Witness ==
    /\ Publishing(ret)
    /\ Len(ret.invoked) = 1
    /\ \E s \in subscriptions.disconnected :
          /\ s[1] = ret.invoked[1].type
          /\ s[2] = ret.invoked[1].phase
          /\ s[3] # ret.invoked[1].id

\* C17: within one dispatcher every id connect returns is greater than all
\* the ids it returned before, so none is returned twice, also once the
\* earlier subscription was disconnected.
C17_ConnectIdsIncrease ==
    ret.op = "connect" =>
        /\ \A id \in ret.earlier : ret.result > id
        /\ ret.result \notin ret.earlier

\* a connect on a dispatcher whose earlier subscription was disconnected
C17_Witness ==
    /\ ret.op = "connect"
    /\ \E id \in ret.earlier :
          <<ret.type, ret.phase, id>> \in subscriptions.disconnected

\* C19: a callback connected through onCreate<T>, onUpdate<T> or onRemove<T>
\* is invoked only by a publish of that phase for that type, once per publish
\* while it is connected; an event of another phase of T or of another type
\* does not invoke it.
C19_ChannelsAreIsolated ==
    /\ AllCalls(LAMBDA r :
          Publishing(r) =>
              \A c \in Range(r.invoked) :
                  /\ c.label = <<r.published[1].type, r.published[1].phase>>
                  /\ <<c.type, c.phase>> = c.label
                  /\ c.entity = r.published[1].entity)
    /\ Publishing(ret) =>
          /\ InvokedOf(ret)
                 = Subscribed(ret.published[1].type, ret.published[1].phase)
          /\ Len(ret.invoked) = Cardinality(InvokedOf(ret))

\* a publish that invoked its one subscriber while callbacks were connected
\* to another phase of the same type and to the other type
C19_Witness ==
    /\ Publishing(ret)
    /\ Len(ret.invoked) = 1
    /\ \E ph \in Phases \ {ret.published[1].phase} :
          Subscribed(ret.published[1].type, ph) # {}

\* C14: a create, update or remove callback may call assign, remove or view
\* on the World that invoked it: the nested call takes full effect and
\* publishes its own event to every subscriber of that event; the triggering
\* call then goes on, invokes each remaining callback of its publish exactly
\* once and returns only when all of them have finished (a remove then still
\* erases); a call below the top of the stack is waiting in a callback that
\* called the World.
C14_ReentrantCallbacks ==
    /\ (InCall /\ Top.op = "assign" /\ Top.invoked = <<>>) =>
          Read(componentStorage, Top.type, Top.entity) = {Top.value}
    /\ \A i \in 1..(Len(stack) - 1) :
          /\ Publishing(stack[i])
          /\ stack[i].invoked # <<>>
          /\ stack[i].invoked[Len(stack[i].invoked)].kind # "observe"
    /\ Publishing(ret) =>
          LET ev == ret.published[1]
              subs == PublishPending(componentStorage, ev.type, ev.phase)
          IN /\ Len(ret.published) = 1
             /\ ret.pending = {}
             /\ Len(ret.invoked) = Cardinality(subs)
             /\ InvokedOf(ret) = subs
             /\ ret.op = "remove" => ~Has(componentStorage, ret.type, ret.entity)

\* a call returned to its caller after a publish to two subscribers, the
\* first of which called assign or remove on the World
C14_Witness ==
    /\ stack = <<>>
    /\ Publishing(ret)
    /\ Len(ret.invoked) = 2
    /\ ret.invoked[1].kind \in {"assign", "remove"}
    /\ ret.invoked[1].type = ret.invoked[2].type
    /\ ret.invoked[1].phase = ret.invoked[2].phase

\* the keys of a storage's map are its set of entities
StorageConsistent(st) == DOMAIN st.map = st.entities

\* C15: in every state, for every component type with storage, the keys of
\* the Entity -> T map are the storage's set of entities; so it is for the
\* copies a view holds, and while assign, remove, transform, patch,
\* destroyEntity and view run, from the caller or from inside callbacks.
C15_MapKeysAreTheEntitySet ==
    /\ \A t \in DOMAIN componentStorage : StorageConsistent(componentStorage[t])
    /\ AllCalls(LAMBDA r :
          (r.op = "each" /\ ~r.threw) =>
              \A t \in DOMAIN r.storages : StorageConsistent(r.storages[t]))

\* a remove called from inside a callback erased a component and returned
C15_Witness ==
    /\ stack # <<>>
    /\ ret.op = "remove"
    /\ ret.before # {}
    /\ \E t \in DOMAIN componentStorage : componentStorage[t].entities # {}

\* C16: the create and update events of assign<T>(e, v), transform<T> and
\* patch<T> are published after the write: every callback they invoke is a
\* create or update callback and reads has<T>(e) true and get<T>(e) equal to
\* the new value (v, f(old), the patched value), not the previous one.
C16_PublishedAfterTheWrite ==
    AllCalls(LAMBDA r :
        (Publishing(r) /\ r.op \in {"assign", "transform", "patch"}) =>
            \A c \in Range(r.invoked) :
                /\ c.phase \in {"create", "update"}
                /\ c.seen = {NewValue(r)})

\* a transform that changed the value and whose two update subscribers ran
C16_Witness ==
    /\ ret.op = "transform"
    /\ Publishing(ret)
    /\ ret.before # {NewValue(ret)}
    /\ Len(ret.invoked) = 2

\* C18: whenever a remove callback of T is invoked with entity e, e holds T
\* (has<T>(e) is true inside the callback); remove<T>(e) on an entity that
\* does not hold T invokes no remove subscriber.
C18_RemoveCallbackOnlyWhenHeld ==
    /\ AllCalls(LAMBDA r :
          Publishing(r) =>
              \A c \in Range(r.invoked) : c.phase = "remove" => c.seen # {})
    /\ (ret.op = "remove" /\ ret.before = {}) => ret.invoked = <<>>

\* C20: components are held by live entities only: whenever has<T>(e) is
\* true, e is in the World's set of entities; assign<T>(e, v) on an entity
\* that was never created or was destroyed does not fail and leaves has<T>(e)
\* false.
C20_ComponentsOnlyOnLiveEntities ==
    /\ \A t \in Types, e \in EntityIds :
          Has(componentStorage, t, e) => e \in entities
    /\ (ret.op = "assign" /\ ret.entity \notin entities) => ret.after = {}

====
